---- MODULE Spec2Model ----
(***************************************************************************)
(* Model of the attendance system's concurrency core:                      *)
(*   - BackgroundCameraManager / CameraWorker  (camera_runner.py)          *)
(*   - the autonomous attendance step of CameraWorker._run                 *)
(*   - the explicit mark_attendance endpoint   (endpoints/attendance.py)   *)
(*   - FaissVectorDB                           (faiss_service.py)          *)
(* Numbers with a fractional part (fps) are kept in tenths.                *)
(***************************************************************************)
EXTENDS Integers, Sequences, FiniteSets, TLC

\* ---------------------------------------------------------------- bounds
NumCameras == 2
NumOwners == 2
NumCallers == 2
MaxWorkers == 2
MaxRecords == 2
MaxFaces == 2
MaxDay == 2
MaxIndex == 3
NumDirs == 2
MaxK == 2

Cameras == 1..NumCameras
Owners == 1..NumOwners
Callers == 1..NumCallers
WorkerIds == 1..MaxWorkers
Days == 1..MaxDay

\* fps values handed to start(), in tenths: -1, 0, 0.1, 0.2, 1, 5, 10
FpsInputs == {-10, 0, 1, 2, 10, 50, 100}
\* readings of datetime.now()
Times == {1, 2}

None == "none"
\* last_result before the first finished cycle
NoResult == [timestamp |-> None]
NoWorker == 0
Free == 0

Min(a, b) == IF a < b THEN a ELSE b
Max(a, b) == IF a > b THEN a ELSE b

\* ----------------------------------------------------------------- state
VARIABLES
    workers,      \* BackgroundCameraManager.workers: camera id -> worker object (0: no entry)
    order,        \* insertion order of the keys of BackgroundCameraManager.workers
    lock,         \* BackgroundCameraManager.lock: Free or the caller that holds it
    nworkers,     \* number of CameraWorker objects constructed so far
    wk,           \* the CameraWorker objects: worker id -> fields
    th,           \* the polling thread of each CameraWorker: position and locals of _run
    call,         \* the manager call each API caller is in
    ret,          \* the API call returning in this step (arguments and value), or NoRet
    today,        \* date.today()
    records,      \* the attendance table
    nextId,       \* the next value of the attendance primary key
    index,        \* FaissVectorDB.index: the stored unit vectors, slot 0 first
    student_ids,  \* FaissVectorDB.student_ids
    embeddings_data,  \* FaissVectorDB.embeddings_data: the set of <<slot, metadata>> items
    disk,         \* the files at index_path and embeddings_path
    trainer_instance,  \* training_service._trainer_instance: a trainer id (0: None)
    faiss_instance,    \* faiss_service._faiss_instance: a FaissVectorDB id (0: None)
    trainers,     \* the FaceRecognitionTrainer objects made so far: id -> its faiss_db
    nfaiss        \* the number of FaissVectorDB objects made so far

camVars_ == <<workers, order, lock, nworkers, wk, th, call>>
camVars == <<camVars_, ret>>
attVars == <<today, records, nextId>>
idxVars == <<index, student_ids, embeddings_data, disk>>
instVars == <<trainer_instance, faiss_instance, trainers, nfaiss>>
vars == <<camVars, attVars, idxVars, instVars>>

\* ------------------------------------------------------- CameraWorker
\* (mutant) the lower limit left at 0
ClampFpsNoFloor(fps) == Max(0, Min(fps, 50))

\* self.fps = max(0.2, min(fps, 5)), in tenths
ClampFps(fps) == Max(2, Min(fps, 50))

\* interval = 1.0 / self.fps if self.fps > 0 else 1.0, as the fraction <<num, den>>
PollInterval(fps) == IF fps > 0 THEN <<10, fps>> ELSE <<1, 1>>

\* CameraWorker.__init__
NewWorker(camera_id, fps) ==
    [camera_id |-> camera_id, fps |-> ClampFps(fps), thread |-> FALSE,
     stop_event |-> FALSE, running |-> FALSE, last_result |-> NoResult, error |-> None]

\* a slot of wk no CameraWorker has been constructed in yet
Unborn == [camera_id |-> 0, fps |-> 0, thread |-> FALSE,
           stop_event |-> FALSE, running |-> FALSE, last_result |-> NoResult, error |-> None]

\* the thread of a worker before Thread.start()
NoThread == [pc |-> "none", interval |-> <<0, 1>>, src_open |-> FALSE,
             results |-> <<>>, ri |-> 1, today |-> 0, now |-> 0]

\* threading.Thread.is_alive()
IsAlive(w) == th[w].pc \notin {"none", "dead"}

\* ------------------------------------------------ CameraWorker._run
Idle == [op |-> "idle"]

\* the results recognize_face can return for one frame: student_id 0 is None
FaceResults == {[student_id |-> 0, confidence |-> 0]}
               \cup {[student_id |-> o, confidence |-> 90] : o \in Owners}
ResultLists == UNION {[1..n -> FaceResults] : n \in 0..MaxFaces}
\* frames with exactly one recognised face
OneFace == {rs \in ResultLists : Len(rs) = 1 /\ rs[1].student_id # 0}
\* frames with no face, an unknown face or one face of owner 1
FewResults == {rs \in ResultLists : Len(rs) <= 1 /\ \A i \in 1..Len(rs) : rs[i].student_id <= 1}

\* (mutant) the filter on the date left out against a later day's rows
MatchingOlder(sid, d) == {r \in records : r.student_id = sid /\ r.date < d}

\* db.query(Attendance).filter(student_id == sid, date == d)
Matching(sid, d) == {r \in records : r.student_id = sid /\ r.date = d}

\* [r.get('student_id') for r in results if r.get('student_id')]
RECURSIVE Recognized(_)
Recognized(rs) ==
    IF rs = <<>> THEN <<>>
    ELSE IF Head(rs).student_id # 0
         THEN <<Head(rs).student_id>> \o Recognized(Tail(rs))
         ELSE Recognized(Tail(rs))

\* the cycle's locals (results, today, now) go out of use at the end of the loop body
EndCycle(t) == [t EXCEPT !.pc = "wait", !.results = <<>>, !.ri = 1, !.today = 0, !.now = 0]

\* (mutant) the failure is not recorded
SetErrLost(w, e) == UNCHANGED wk

\* self.error = ...
SetErr(w, e) == wk' = [wk EXCEPT ![w].error = e]

\* a step that is no return of an API call: nothing is being returned
NoRet == [op |-> "none"]
Quiet == ret' = NoRet

\* trainer = get_trainer(); interval = ...   (an exception here ends the thread)
RunInit(w) ==
    /\ th[w].pc = "init"
    /\ \/ th' = [th EXCEPT ![w].pc = "loop", ![w].interval = PollInterval(wk[w].fps)]
       \/ th' = [th EXCEPT ![w].pc = "dead"]
    /\ Quiet /\ UNCHANGED <<instVars, workers, order, lock, nworkers, wk, call, attVars, idxVars>>

\* while not self.stop_event.is_set(): start_t = time.time()
RunLoop(w) ==
    /\ th[w].pc = "loop"
    /\ th' = [th EXCEPT ![w].pc = IF wk[w].stop_event THEN "dead" ELSE "open"]
    /\ Quiet /\ UNCHANGED <<instVars, workers, order, lock, nworkers, wk, call, attVars, idxVars>>

\* with VideoCapture(self.source) as cap: if not cap.is_opened: ... time.sleep(2)
RunOpen(w) ==
    /\ th[w].pc = "open"
    /\ \/ /\ th' = [th EXCEPT ![w].pc = "read", ![w].src_open = TRUE]
          /\ UNCHANGED wk
       \/ /\ th' = [th EXCEPT ![w].pc = "sleep_open"]
          /\ SetErr(w, "Unable to open source")
    /\ Quiet /\ UNCHANGED <<instVars, workers, order, lock, nworkers, call, attVars, idxVars>>

\* frame = cap.read(); if frame is None: ... time.sleep(1); leaving the with block closes cap
RunRead(w) ==
    /\ th[w].pc = "read"
    /\ \/ /\ th' = [th EXCEPT ![w].pc = "recognize", ![w].src_open = FALSE]
          /\ UNCHANGED wk
       \/ /\ th' = [th EXCEPT ![w].pc = "sleep_read"]
          /\ SetErr(w, "Failed to read frame")
       \/ /\ th' = [th EXCEPT ![w].pc = "wait", ![w].src_open = FALSE]
          /\ SetErr(w, "exception")
    /\ Quiet /\ UNCHANGED <<instVars, workers, order, lock, nworkers, call, attVars, idxVars>>

\* time.sleep(2) / time.sleep(1) return; continue leaves the with block
RunBackoff(w) ==
    /\ th[w].pc \in {"sleep_open", "sleep_read"}
    /\ th' = [th EXCEPT ![w].pc = "loop", ![w].src_open = FALSE]
    /\ Quiet /\ UNCHANGED <<instVars, workers, order, lock, nworkers, wk, call, attVars, idxVars>>

\* results = trainer.recognize_face(frame); today = date.today(); now = datetime.now()
RunRecognize(w, RL, TS) ==
    /\ th[w].pc = "recognize"
    /\ \/ /\ \E rs \in RL, t \in TS :
                th' = [th EXCEPT ![w].pc = "att", ![w].results = rs, ![w].ri = 1,
                                 ![w].today = today, ![w].now = t]
          /\ UNCHANGED wk
       \/ /\ th' = [th EXCEPT ![w].pc = "wait"]
          /\ SetErr(w, "exception")
    /\ Quiet /\ UNCHANGED <<instVars, workers, order, lock, nworkers, call, attVars, idxVars>>

\* for result in results: sid = ...; if sid: existing = db.query(...).first()
RunAttCheck(w) ==
    /\ th[w].pc = "att"
    /\ th[w].ri <= Len(th[w].results)
    /\ LET sid == th[w].results[th[w].ri].student_id IN
       IF sid # 0 /\ Matching(sid, th[w].today) = {}
       THEN th' = [th EXCEPT ![w].pc = "att_insert"]
       ELSE th' = [th EXCEPT ![w].ri = @ + 1]
    /\ Quiet /\ UNCHANGED <<instVars, workers, order, lock, nworkers, wk, call, attVars, idxVars>>

\* (mutant) the new row takes the place of the rows of its key
AddedOver(r) ==
    {x \in records : ~(x.student_id = r.student_id /\ x.date = r.date)} \cup {r}

\* db.add(attendance); db.commit()
Added(r) == records \cup {r}

\* if not existing: db.add(Attendance(...)); db.commit()
RunAttInsert(w) ==
    /\ th[w].pc = "att_insert"
    /\ \/ /\ Cardinality(records) < MaxRecords
          /\ records' = Added([id |-> nextId,
                                student_id |-> th[w].results[th[w].ri].student_id,
                                date |-> th[w].today, time |-> th[w].now,
                                camera_id |-> wk[w].camera_id,
                                confidence |-> th[w].results[th[w].ri].confidence,
                                status |-> "present"])
          /\ nextId' = nextId + 1
          /\ th' = [th EXCEPT ![w].pc = "att", ![w].ri = @ + 1]
          /\ UNCHANGED wk
       \/ /\ th' = [th EXCEPT ![w] = EndCycle(th[w])]
          /\ SetErr(w, "exception")
          /\ UNCHANGED <<records, nextId>>
    /\ Quiet /\ UNCHANGED <<instVars, workers, order, lock, nworkers, call, today, idxVars>>

\* self.last_result = {...}; self.error = None
RunAttDone(w) ==
    /\ th[w].pc = "att"
    /\ th[w].ri > Len(th[w].results)
    /\ wk' = [wk EXCEPT ![w].last_result =
                            [timestamp |-> th[w].now,
                             recognized |-> Recognized(th[w].results),
                             count |-> Len(Recognized(th[w].results))],
                        ![w].error = None]
    /\ th' = [th EXCEPT ![w] = EndCycle(th[w])]
    /\ Quiet /\ UNCHANGED <<instVars, workers, order, lock, nworkers, call, attVars, idxVars>>

\* (mutant) the sleep between cycles does not look at the stop event
RunWaitWholeInterval(w) ==
    /\ th[w].pc = "wait"
    /\ th' = [th EXCEPT ![w].pc = "loop"]
    /\ Quiet /\ UNCHANGED <<instVars, workers, order, lock, nworkers, wk, call, attVars, idxVars>>

\* if self.stop_event.wait(timeout=sleep_time): break
RunWait(w) ==
    /\ th[w].pc = "wait"
    /\ th' = [th EXCEPT ![w].pc = IF wk[w].stop_event THEN "dead" ELSE "loop"]
    /\ Quiet /\ UNCHANGED <<instVars, workers, order, lock, nworkers, wk, call, attVars, idxVars>>

\* date.today() moves on at midnight
Midnight ==
    /\ today < MaxDay
    /\ today' = today + 1
    /\ Quiet /\ UNCHANGED <<instVars, workers, order, lock, nworkers, wk, th, call, records, nextId, idxVars>>

\* ------------------------------------------- BackgroundCameraManager
\* CameraWorker.start: if self.running: return; clear the event, start the thread, running = True
WorkerStart(wobj) ==
    IF wobj.running THEN wobj
    ELSE [wobj EXCEPT !.stop_event = FALSE, !.thread = TRUE, !.running = TRUE]

\* the thread CameraWorker.start launches (none when the worker was already running)
ThreadStart(wobj, t) == IF wobj.running THEN t ELSE [NoThread EXCEPT !.pc = "init"]

\* (mutant) the test looks at the thread, not at the running flag
AlreadyAlive(cam) == workers[cam] # NoWorker /\ IsAlive(workers[cam])

\* worker = self.workers.get(camera.id); if worker and worker.running
AlreadyRunning(cam) == workers[cam] # NoWorker /\ wk[workers[cam]].running

\* BackgroundCameraManager.start(camera, fps)
Start(c, cam, fps) ==
    /\ call[c] = Idle
    /\ lock = Free
    /\ LET w == workers[cam] IN
       IF AlreadyRunning(cam)
       THEN /\ ret' = [op |-> "start", cam |-> cam, fps |-> fps, val |-> w]
            /\ UNCHANGED <<workers, order, nworkers, wk, th>>
       ELSE /\ nworkers < MaxWorkers
            /\ LET n == nworkers + 1
                   wobj == NewWorker(cam, fps)
               IN /\ nworkers' = n
                  /\ workers' = [workers EXCEPT ![cam] = n]
                  /\ order' = IF w = NoWorker THEN Append(order, cam) ELSE order
                  /\ wk' = [wk EXCEPT ![n] = WorkerStart(wobj)]
                  /\ th' = [th EXCEPT ![n] = ThreadStart(wobj, th[n])]
                  /\ ret' = [op |-> "start", cam |-> cam, fps |-> fps, val |-> n]
    /\ UNCHANGED <<instVars, lock, call, attVars, idxVars>>

\* (mutant) running is cleared only when the thread has ended
AfterStopIfEnded(w) == IF IsAlive(w) THEN wk[w] ELSE [wk[w] EXCEPT !.running = FALSE]

\* CameraWorker.stop after the join: self.running = False
AfterStop(w) == [wk[w] EXCEPT !.running = FALSE]

\* CameraWorker.stop up to the join: if self.thread and self.thread.is_alive(): stop_event.set()
MustJoin(w) == wk[w].thread /\ IsAlive(w)

\* BackgroundCameraManager.stop(camera_id), up to the join or, without one, to the return
Stop(c, cam) ==
    /\ call[c] = Idle
    /\ lock = Free
    /\ LET w == workers[cam] IN
       IF w = NoWorker
       THEN /\ ret' = [op |-> "stop", cam |-> cam, val |-> FALSE]
            /\ UNCHANGED <<lock, wk, call>>
       ELSE IF MustJoin(w)
       THEN /\ wk' = [wk EXCEPT ![w].stop_event = TRUE]
            /\ lock' = c
            /\ call' = [call EXCEPT ![c] = [op |-> "stop", cam |-> cam, w |-> w]]
            /\ Quiet
       ELSE /\ wk' = [wk EXCEPT ![w] = AfterStop(w)]
            /\ ret' = [op |-> "stop", cam |-> cam, val |-> TRUE]
            /\ UNCHANGED <<lock, call>>
    /\ UNCHANGED <<instVars, workers, order, nworkers, th, attVars, idxVars>>

\* self.thread.join(timeout=5) returns (the thread ended or the timeout ran out);
\* self.running = False; return True
StopJoined(c) ==
    /\ call[c].op = "stop"
    /\ wk' = [wk EXCEPT ![call[c].w] = AfterStop(call[c].w)]
    /\ lock' = Free
    /\ ret' = [op |-> "stop", cam |-> call[c].cam, val |-> TRUE]
    /\ call' = [call EXCEPT ![c] = Idle]
    /\ UNCHANGED <<instVars, workers, order, nworkers, th, attVars, idxVars>>

\* list(self.workers.values())
RECURSIVE WorkerList(_)
WorkerList(cams) ==
    IF cams = <<>> THEN <<>> ELSE <<workers[Head(cams)]>> \o WorkerList(Tail(cams))

\* BackgroundCameraManager.stop_all: takes the lock and lists the workers
StopAll(c) ==
    /\ call[c] = Idle
    /\ lock = Free
    /\ lock' = c
    /\ call' = [call EXCEPT ![c] = [op |-> "stop_all", todo |-> WorkerList(order),
                                    joining |-> FALSE]]
    /\ Quiet
    /\ UNCHANGED <<instVars, workers, order, nworkers, wk, th, attVars, idxVars>>

\* for worker in ...: worker.stop(), up to the join or, without one, to running = False
StopAllNext(c) ==
    /\ call[c].op = "stop_all"
    /\ ~call[c].joining
    /\ call[c].todo # <<>>
    /\ LET w == Head(call[c].todo) IN
       IF MustJoin(w)
       THEN /\ wk' = [wk EXCEPT ![w].stop_event = TRUE]
            /\ call' = [call EXCEPT ![c].joining = TRUE]
       ELSE /\ wk' = [wk EXCEPT ![w] = AfterStop(w)]
            /\ call' = [call EXCEPT ![c].todo = Tail(@)]
    /\ Quiet
    /\ UNCHANGED <<instVars, workers, order, lock, nworkers, th, attVars, idxVars>>

\* the join of stop_all's current worker returns; self.running = False
StopAllJoined(c) ==
    /\ call[c].op = "stop_all"
    /\ call[c].joining
    /\ wk' = [wk EXCEPT ![Head(call[c].todo)] = AfterStop(Head(call[c].todo))]
    /\ call' = [call EXCEPT ![c].todo = Tail(@), ![c].joining = FALSE]
    /\ Quiet
    /\ UNCHANGED <<instVars, workers, order, lock, nworkers, th, attVars, idxVars>>

\* stop_all: return True (leaves the with block)
StopAllReturn(c) ==
    /\ call[c].op = "stop_all"
    /\ ~call[c].joining
    /\ call[c].todo = <<>>
    /\ lock' = Free
    /\ ret' = [op |-> "stop_all", val |-> TRUE]
    /\ call' = [call EXCEPT ![c] = Idle]
    /\ UNCHANGED <<instVars, workers, order, nworkers, wk, th, attVars, idxVars>>

\* the dictionary status(camera_id) returns
Snapshot(cam) ==
    LET w == workers[cam] IN
    IF w = NoWorker THEN [running |-> FALSE]
    ELSE [running |-> wk[w].running, error |-> wk[w].error,
          last_result |-> wk[w].last_result, fps |-> wk[w].fps, camera_id |-> cam]

\* caller c is at a call of status(cam): a call of its own, or the one all_status makes
\* for the next key of its comprehension
InStatus(c, cam) ==
    IF call[c].op = "all_status"
    THEN call[c].todo # <<>> /\ cam = Head(call[c].todo)
    ELSE call[c] = Idle

\* BackgroundCameraManager.status(camera_id): called by an API caller, or by all_status
\* for the next key of its comprehension; either way it first takes self.lock
Status(c, cam) ==
    /\ lock = Free
    /\ InStatus(c, cam)
    /\ IF call[c] = Idle
       THEN /\ ret' = [op |-> "status", cam |-> cam, val |-> Snapshot(cam)]
            /\ UNCHANGED call
       ELSE /\ call' = [call EXCEPT ![c].todo = Tail(@),
                                    ![c].acc = @ \cup {<<cam, Snapshot(cam)>>}]
            /\ Quiet
    /\ UNCHANGED <<instVars, workers, order, lock, nworkers, wk, th, attVars, idxVars>>

\* BackgroundCameraManager.all_status: with self.lock: {cid: ... for cid in self.workers.keys()}
AllStatus(c) ==
    /\ call[c] = Idle
    /\ lock = Free
    /\ lock' = c
    /\ call' = [call EXCEPT ![c] = [op |-> "all_status", todo |-> order, acc |-> {}]]
    /\ Quiet
    /\ UNCHANGED <<instVars, workers, order, nworkers, wk, th, attVars, idxVars>>

\* all_status: the comprehension is exhausted; return (leaves the with block)
AllStatusReturn(c) ==
    /\ call[c].op = "all_status"
    /\ call[c].todo = <<>>
    /\ lock' = Free
    /\ ret' = [op |-> "all_status", val |-> call[c].acc]
    /\ call' = [call EXCEPT ![c] = Idle]
    /\ UNCHANGED <<instVars, workers, order, nworkers, wk, th, attVars, idxVars>>

\* ------------------------------------------------- mark_attendance
\* the ids of the students table; UnknownStudent is an id that is not in it
UnknownStudent == NumOwners + 1

\* the AttendanceCreate bodies a caller can post (camera_id 0 is None)
MarkRequests ==
    {[student_id |-> o, date |-> d, time |-> v[1], camera_id |-> v[2],
      confidence |-> v[3], status |-> v[4]] :
        o \in Owners \cup {UnknownStudent}, d \in Days,
        v \in {<<1, 0, 60, "present">>, <<2, 1, 90, "late">>}}

\* mark_attendance up to `existing = db.query(...).first()`: 404 for an unknown student;
\* first() without ORDER BY yields any one of the matching rows
MarkCheck(c, req) ==
    /\ call[c] = Idle
    /\ IF req.student_id \notin Owners
       THEN /\ ret' = [op |-> "mark", req |-> req, val |-> 404, branch |-> "unknown student"]
            /\ UNCHANGED call
       ELSE /\ \E e \in IF Matching(req.student_id, req.date) = {} THEN {0}
                        ELSE {r.id : r \in Matching(req.student_id, req.date)} :
                  call' = [call EXCEPT ![c] = [op |-> "mark", req |-> req, existing |-> e]]
            /\ Quiet
    /\ UNCHANGED <<instVars, workers, order, lock, nworkers, wk, th, attVars, idxVars>>

\* (mutant) the confidence of the row is left as it was
OverwriteButConfidence(r, req) ==
    [r EXCEPT !.time = req.time, !.camera_id = req.camera_id, !.status = req.status]

\* existing.time = ...; existing.camera_id = ...; existing.confidence = ...; existing.status = ...
Overwrite(r, req) ==
    [r EXCEPT !.time = req.time, !.camera_id = req.camera_id,
              !.confidence = req.confidence, !.status = req.status]

\* Attendance(**attendance.dict())
NewRecord(id, req) ==
    [id |-> id, student_id |-> req.student_id, date |-> req.date, time |-> req.time,
     camera_id |-> req.camera_id, confidence |-> req.confidence, status |-> req.status]

\* mark_attendance from `if existing:` on: update the row found, or add a new one; commit
MarkWrite(c) ==
    /\ call[c].op = "mark"
    /\ LET req == call[c].req
           e == call[c].existing
       IN IF e # 0
          THEN /\ records' = {IF r.id = e THEN Overwrite(r, req) ELSE r : r \in records}
               /\ ret' = [op |-> "mark", req |-> req, val |-> e, branch |-> "update"]
               /\ UNCHANGED nextId
          ELSE /\ Cardinality(records) < MaxRecords
               /\ records' = Added(NewRecord(nextId, req))
               /\ ret' = [op |-> "mark", req |-> req, val |-> nextId, branch |-> "create"]
               /\ nextId' = nextId + 1
    /\ call' = [call EXCEPT ![c] = Idle]
    /\ UNCHANGED <<instVars, workers, order, lock, nworkers, wk, th, today, idxVars>>


\* ------------------------------------------------------ FaissVectorDB
\* an embedding is a direction and a length; metadata 0 is None
Embeddings == [dir : 1..NumDirs, mag : {1, 2}]
Metas == {0, 1, 2}

\* embedding / np.linalg.norm(embedding, axis=1, keepdims=True)
Normalize(e) == [e EXCEPT !.mag = 1]

\* a file: missing, readable with its content, or unreadable
Missing == [state |-> "missing"]
Corrupt == [state |-> "corrupt"]
File(content) == [state |-> "ok", content |-> content]

\* FaissVectorDB._create_index: a fresh index, student_ids = [], embeddings_data = {}
Created == [index |-> <<>>, student_ids |-> <<>>, embeddings_data |-> {}]

\* the three attributes of the FaissVectorDB object
Db == [index |-> index, student_ids |-> student_ids, embeddings_data |-> embeddings_data]

SetDb(d) ==
    /\ index' = d.index
    /\ student_ids' = d.student_ids
    /\ embeddings_data' = d.embeddings_data

\* self.embeddings_data[slot] = metadata
Put(data, slot, m) == {it \in data : it[1] # slot} \cup {<<slot, m>>}

\* FaissVectorDB.save_index on the object d: faiss.write_index, then open(..., 'wb') and
\* pickle.dump.  `how` is how far it gets: "ok", or the write that raises; a write that
\* raises leaves its file as it was or unreadable, and so does a crash of the process
\* during that write
SaveOutcomes == {"ok", "index_raises", "meta_raises"}
SavedOn(dk, d, how) ==
    LET meta == File([student_ids |-> d.student_ids, embeddings_data |-> d.embeddings_data])
    IN  IF how = "ok" THEN {[index |-> File(d.index), meta |-> meta]}
        ELSE IF how = "index_raises" THEN {dk, [dk EXCEPT !.index = Corrupt]}
        ELSE {[dk EXCEPT !.index = File(d.index)],
              [index |-> File(d.index), meta |-> Corrupt]}
Saved(d, how) == SavedOn(disk, d, how)

Outcome(how) == IF how = "ok" THEN "ok" ELSE "raised"

\* FaissVectorDB.add_embedding(embedding, student_id, metadata)
AddEmbedding(e, sid, m, how) ==
    /\ Len(index) < MaxIndex
    /\ Len(student_ids) < MaxIndex
    /\ LET faiss_id == Len(student_ids)
           d == [index |-> Append(index, Normalize(e)),
                 student_ids |-> Append(student_ids, sid),
                 embeddings_data |-> IF m # 0 THEN Put(embeddings_data, faiss_id, m)
                                     ELSE embeddings_data]
       IN /\ SetDb(d)
          /\ disk' \in Saved(d, how)
          /\ ret' = [op |-> "add", student_id |-> sid, val |-> faiss_id,
                     outcome |-> Outcome(how)]
    /\ UNCHANGED <<instVars, camVars_, attVars>>

\* add_embedding statement by statement, as a thread of caller c runs it while other
\* threads use the same FaissVectorDB object (get_faiss_db returns one object to all,
\* and no statement of FaissVectorDB takes a lock).  First self.index.add(...)
AddEmbeddingIndexAdd(c, e, sid) ==
    /\ call[c] = Idle
    /\ Len(index) < MaxIndex
    /\ Len(student_ids) < MaxIndex
    /\ index' = Append(index, Normalize(e))
    /\ call' = [call EXCEPT ![c] = [op |-> "add", pc |-> "index.add", student_id |-> sid]]
    /\ Quiet
    /\ UNCHANGED <<instVars, workers, order, lock, nworkers, wk, th, attVars,
                   student_ids, embeddings_data, disk>>

\* faiss_id = len(self.student_ids); self.student_ids.append(student_id)
AddEmbeddingAppend(c) ==
    /\ call[c].op = "add"
    /\ call[c].pc = "index.add"
    /\ Len(student_ids) < MaxIndex
    /\ student_ids' = Append(student_ids, call[c].student_id)
    /\ call' = [call EXCEPT ![c] = [op |-> "add", pc |-> "append",
                                    student_id |-> call[c].student_id,
                                    faiss_id |-> Len(student_ids)]]
    /\ Quiet
    /\ UNCHANGED <<instVars, workers, order, lock, nworkers, wk, th, attVars,
                   index, embeddings_data, disk>>

\* self.save_index(); return faiss_id
AddEmbeddingSave(c) ==
    /\ call[c].op = "add"
    /\ call[c].pc = "append"
    /\ disk' \in Saved(Db, "ok")
    /\ call' = [call EXCEPT ![c] = Idle]
    /\ ret' = [op |-> "add", student_id |-> call[c].student_id, val |-> call[c].faiss_id,
               outcome |-> "ok"]
    /\ UNCHANGED <<instVars, workers, order, lock, nworkers, wk, th, attVars,
                   index, student_ids, embeddings_data>>

\* keep_indices = [i for i, sid in enumerate(self.student_ids) if sid != student_id]
RECURSIVE KeepFrom(_, _, _)
KeepFrom(ids, sid, i) ==
    IF i >= Len(ids) THEN <<>>
    ELSE IF ids[i + 1] # sid THEN <<i>> \o KeepFrom(ids, sid, i + 1)
         ELSE KeepFrom(ids, sid, i + 1)
\* (mutant) slot 0 is never kept
KeepIndicesButFirst(ids, sid) == KeepFrom(ids, sid, 1)

KeepIndices(ids, sid) == KeepFrom(ids, sid, 0)

\* the rebuild branch of remove_student_embeddings, in the order of its statements:
\* reconstruct the kept vectors, self._create_index(), self.index.add(...), then
\* self.student_ids = [self.student_ids[i] for i in keep_indices] and the metadata loop.
\* The result is the object and "ok", or the object as the raising statement leaves it
Rebuilt(d, keep) ==
    IF \E k \in 1..Len(keep) : keep[k] >= Len(d.index)
    THEN [db |-> d, outcome |-> "raised"]
    ELSE LET kept == [k \in 1..Len(keep) |-> d.index[keep[k] + 1]]
             d1 == Created
             d2 == [d1 EXCEPT !.index = kept]
         IN IF \E k \in 1..Len(keep) : keep[k] >= Len(d2.student_ids)
            THEN [db |-> d2, outcome |-> "raised"]
            ELSE LET d3 == [d2 EXCEPT !.student_ids =
                                [k \in 1..Len(keep) |-> d2.student_ids[keep[k] + 1]]]
                     d4 == [d3 EXCEPT !.embeddings_data =
                                UNION {{<<k - 1, it[2]>> :
                                            it \in {x \in d3.embeddings_data : x[1] = keep[k]}} :
                                       k \in 1..Len(keep)}]
                 IN [db |-> d4, outcome |-> "ok"]

\* what the rebuild branch can leave: faiss.rev_swig_ptr(self.index.reconstruct(i), ...)
\* raises on the array the Python wrapper of reconstruct returns, before anything is
\* changed; where it yields the vector the rebuild goes on
RebuildOutcomes(d, keep) == {[db |-> d, outcome |-> "raised"], Rebuilt(d, keep)}

\* FaissVectorDB.remove_student_embeddings(student_id)
RemoveStudent(sid, how) ==
    /\ LET keep == KeepIndices(student_ids, sid) IN
       IF Len(keep) = Len(student_ids)
       THEN /\ how = "ok"
            /\ ret' = [op |-> "remove", student_id |-> sid, outcome |-> "ok"]
            /\ UNCHANGED idxVars
       ELSE \E r \in IF Len(keep) > 0 THEN RebuildOutcomes(Db, keep)
                     ELSE {[db |-> Created, outcome |-> "ok"]} :
               /\ SetDb(r.db)
               /\ IF r.outcome = "ok"
                  THEN /\ disk' \in Saved(r.db, how)
                       /\ ret' = [op |-> "remove", student_id |-> sid,
                                  outcome |-> Outcome(how)]
                  ELSE /\ how = "ok"
                       /\ UNCHANGED disk
                       /\ ret' = [op |-> "remove", student_id |-> sid, outcome |-> "raised"]
    /\ UNCHANGED <<instVars, camVars_, attVars>>

\* FaissVectorDB.clear_index
ClearIndex(how) ==
    /\ SetDb(Created)
    /\ disk' \in Saved(Created, how)
    /\ ret' = [op |-> "clear", outcome |-> Outcome(how)]
    /\ UNCHANGED <<instVars, camVars_, attVars>>

\* FaissVectorDB.get_student_embedding_count
CountFor(ids, sid) == Cardinality({i \in 1..Len(ids) : ids[i] = sid})

\* (mutant) the index that was read is kept when the metadata cannot be read
LoadedKeepsIndex(dk) ==
    IF dk.index.state = "missing" \/ dk.meta.state = "missing" THEN Created
    ELSE IF dk.index.state = "ok" /\ dk.meta.state = "ok"
         THEN [index |-> dk.index.content, student_ids |-> dk.meta.content.student_ids,
               embeddings_data |-> dk.meta.content.embeddings_data]
         ELSE IF dk.index.state = "ok" THEN [Created EXCEPT !.index = dk.index.content]
              ELSE Created

\* FaissVectorDB._load_or_create_index on the files dk: both files exist -> _load_index
\* (faiss.read_index, then pickle.load; any exception -> _create_index), else _create_index
Loaded(dk) ==
    IF dk.index.state = "missing" \/ dk.meta.state = "missing" THEN Created
    ELSE IF dk.index.state = "ok" /\ dk.meta.state = "ok"
         THEN [index |-> dk.index.content, student_ids |-> dk.meta.content.student_ids,
               embeddings_data |-> dk.meta.content.embeddings_data]
         ELSE Created

\* FaissVectorDB(): the process starts again (after a stop or a crash) and the object is
\* built from the files; what the old object held in memory is gone
LoadIndex ==
    /\ SetDb(Loaded(disk))
    /\ ret' = [op |-> "load"]
    /\ UNCHANGED <<instVars, disk, camVars_, attVars>>

\* ------------------------------- FaceRecognitionTrainer.process_student_frames
MaxFrames == 2

\* what the loop over the frames gets from one frame: an embedding, or nothing (no face,
\* no face region, or an exception, all of which `continue`)
NoFace == [dir |-> 0, mag |-> 0]
FrameLists == UNION {[1..n -> {e \in Embeddings : e.mag = 1} \cup {NoFace}] : n \in 0..MaxFrames}

\* min_faces as the callers pass it
MinFacesInputs == {1, 2}

\* embeddings: the embeddings of the frames that gave one, in order
RECURSIVE ValidEmbeddings(_)
ValidEmbeddings(frames) ==
    IF frames = <<>> THEN <<>>
    ELSE IF Head(frames) # NoFace THEN <<Head(frames)>> \o ValidEmbeddings(Tail(frames))
         ELSE ValidEmbeddings(Tail(frames))

\* (mutant) a batch one short of the minimum passes
TooFewByTwo(n, min_faces) == n + 1 < min_faces

\* if len(embeddings) < min_faces
TooFew(n, min_faces) == n < min_faces

\* the object d after the in-memory part of add_embedding(e, sid, m)
AddTo(d, e, sid, m) ==
    [index |-> Append(d.index, Normalize(e)),
     student_ids |-> Append(d.student_ids, sid),
     embeddings_data |-> IF m # 0 THEN Put(d.embeddings_data, Len(d.student_ids), m)
                         ELSE d.embeddings_data]

\* the object d after add_embedding for each of es
RECURSIVE AddAll(_, _, _, _)
AddAll(d, es, sid, m) ==
    IF es = <<>> THEN d ELSE AddAll(AddTo(d, Head(es), sid, m), Tail(es), sid, m)

\* (mutant) the batch is added without its last embedding
AddMultipleButLast(d, es, sid, m) ==
    IF es = <<>> THEN d ELSE AddAll(d, SubSeq(es, 1, Len(es) - 1), sid, m)

\* add_multiple_embeddings(es, sid, m) when every save succeeds
AddMultiple(d, es, sid, m) == AddAll(d, es, sid, m)

\* process_student_frames(frames, student_id, min_faces).  fail = 0: every save of the
\* batch succeeds; fail = j: the save of the j-th add_embedding raises as `how` says,
\* which ends add_multiple_embeddings and is caught by process_student_frames
Process(frames, sid, min_faces, fail, how) ==
    LET es == ValidEmbeddings(frames)
        n == Len(es)
        result(ok, branch) ==
            [op |-> "process", frames |-> frames, student_id |-> sid,
             min_faces |-> min_faces, fail |-> fail, success |-> ok, branch |-> branch,
             embeddings_count |-> n]
    IN /\ IF TooFew(n, min_faces)
          THEN /\ fail = 0 /\ how = "ok"
               /\ ret' = result(FALSE, "not enough")
               /\ UNCHANGED idxVars
          ELSE /\ Len(index) + n <= MaxIndex
               /\ Len(student_ids) + n <= MaxIndex
               /\ fail \in 0..n
               /\ IF fail = 0
                  THEN /\ how = "ok"
                       /\ SetDb(AddMultiple(Db, es, sid, n))
                       /\ disk' \in IF n = 0 THEN {disk}
                                    ELSE SavedOn(disk, AddMultiple(Db, es, sid, n), "ok")
                       /\ ret' = result(TRUE, "added")
                  ELSE /\ how # "ok"
                       /\ LET before == AddAll(Db, SubSeq(es, 1, fail - 1), sid, n)
                              at == AddTo(before, es[fail], sid, n)
                              dk == IF fail = 1 THEN disk
                                    ELSE CHOOSE x \in SavedOn(disk, before, "ok") : TRUE
                          IN /\ SetDb(at)
                             /\ disk' \in SavedOn(dk, at, how)
                       /\ ret' = result(FALSE, "error adding")
       /\ UNCHANGED <<instVars, camVars_, attVars>>

\* ------------------------------------------------- FaissVectorDB.search
\* settings.FACE_RECOGNITION_THRESHOLD = 0.55, in hundredths
FaceRecognitionThreshold == 55

\* Unit vectors lie on a line of third steps: a stored direction dir at position
\* 3 * dir, a query at any position from 1 to 3 * NumDirs + 1
Pos(e) == 3 * e.dir
QueryPositions == 1..(3 * NumDirs + 1)

\* the squared L2 distance IndexFlatL2 reports for two unit vectors, in hundredths: it
\* grows with their separation (0, 6, 24, 55, 97, ...); a whole step apart is exactly
\* the configured cutoff
SqDist(p, q) == (FaceRecognitionThreshold * (p - q) * (p - q)) \div 9

\* the distance of the query at q to the vector in slot i (slots count from 0)
DistOf(q, i) == SqDist(q, Pos(index[i + 1]))

\* the values of k and of threshold a caller passes (threshold 0: None or 0.0)
KInputs == 1..MaxK
ThresholdInputs == {0, 6}

\* threshold = threshold or settings.FACE_RECOGNITION_THRESHOLD
CutoffOr(t) == IF t = 0 THEN FaceRecognitionThreshold ELSE t

\* (mutant) every stored vector is reported
ResultCountAll(k, n) == n

\* self.index.search(query, k) reports k labels, of which those beyond ntotal are -1
ResultCount(k, n) == Min(k, n)

\* the labels self.index.search can report for the query at q: the nearest slots in
\* the order of their distance, vectors at the same distance in either order
Rankings(q, k) ==
    LET n == ResultCount(k, Len(index))
        slots == 0..(Len(index) - 1)
    IN {r \in [1..n -> slots] :
          /\ \A i, j \in 1..n : i < j => r[i] # r[j] /\ DistOf(q, r[i]) <= DistOf(q, r[j])
          /\ \A x \in slots :
                (\A i \in 1..n : r[i] # x) => \A i \in 1..n : DistOf(q, r[i]) <= DistOf(q, x)}

\* similarity = 1 / (1 + dist), as the fraction <<num, den>> (dist is in hundredths)
Similarity(dist) == <<100, 100 + dist>>

\* (mutant) a distance equal to the threshold is accepted too
AtOrBelow(dist, threshold) == dist <= threshold

\* if dist < threshold
Below(dist, threshold) == dist < threshold

\* the labels the loop of search accepts, in order:
\* if idx >= 0 and idx < len(self.student_ids): ... if dist < threshold
RECURSIVE Accepted(_, _, _)
Accepted(q, r, threshold) ==
    IF r = <<>> THEN <<>>
    ELSE IF Head(r) < Len(student_ids) /\ Below(DistOf(q, Head(r)), threshold)
         THEN <<Head(r)>> \o Accepted(q, Tail(r), threshold)
         ELSE Accepted(q, Tail(r), threshold)

\* results.append((student_id, float(similarity))) for the accepted labels
Matches(q, idx) ==
    [i \in 1..Len(idx) |-> <<student_ids[idx[i] + 1], Similarity(DistOf(q, idx[i]))>>]

\* FaissVectorDB.search(query_embedding, k, threshold)
Search(q, k, t) ==
    /\ IF Len(index) = 0
       THEN ret' = [op |-> "search", q |-> q, k |-> k, cutoff |-> CutoffOr(t),
                    idx |-> <<>>, val |-> <<>>]
       ELSE \E r \in Rankings(q, k) :
               LET idx == Accepted(q, r, CutoffOr(t))
               IN ret' = [op |-> "search", q |-> q, k |-> k, cutoff |-> CutoffOr(t),
                          idx |-> idx, val |-> Matches(q, idx)]
    /\ UNCHANGED <<instVars, camVars_, attVars, idxVars>>

\* ------------------------------------- FaceRecognitionTrainer.recognize_face
\* what happens to one detection of the frame: its crop is empty (extract_face_from_bbox
\* returns None), get_embedding raises, search raises, or the embedding at position q is
\* searched for
Detections ==
    {[kind |-> k, q |-> 0] : k \in {"empty crop", "embedding raises", "search raises"}}
    \cup {[kind |-> "searched", q |-> q] : q \in {3, 4, 6}}
DetectionLists == UNION {[1..n -> Detections] : n \in 0..MaxFaces}

\* matches = self.faiss_db.search(embedding, k=1): the lists search can return
SearchResults(q) ==
    IF Len(index) = 0 THEN {<<>>}
    ELSE {Matches(q, Accepted(q, r, CutoffOr(0))) : r \in Rankings(q, 1)}

\* (mutant) a match is reported without its owner
ResultOfNoOwner(i, matches) ==
    IF matches # <<>>
    THEN [face |-> i, student_id |-> 0, confidence |-> matches[1][2], matches |-> matches]
    ELSE [face |-> i, student_id |-> 0, confidence |-> 0, matches |-> matches]

\* if matches: student_id, confidence = matches[0]; results.append({...})
\* else: results.append({... 'student_id': None, 'confidence': 0.0 ...})
\* (face stands for the bbox and detection_score of the i-th detection; matches is the
\* list the search returned for it)
ResultOf(i, matches) ==
    IF matches # <<>>
    THEN [face |-> i, student_id |-> matches[1][1], confidence |-> matches[1][2],
          matches |-> matches]
    ELSE [face |-> i, student_id |-> 0, confidence |-> 0, matches |-> matches]

\* the lists `results` can be after the loop has handled the detections i.. of faces
RECURSIVE ResultsFrom(_, _)
ResultsFrom(faces, i) ==
    IF i > Len(faces) THEN {<<>>}
    ELSE IF faces[i].kind # "searched" THEN ResultsFrom(faces, i + 1)
    ELSE {<<ResultOf(i, m)>> \o rest :
             m \in SearchResults(faces[i].q), rest \in ResultsFrom(faces, i + 1)}

\* (mutant) the first detection that fails ends the loop
ResultsUntilFailure(faces) ==
    LET failing == {i \in 1..Len(faces) : faces[i].kind # "searched"}
        upto == IF failing = {} THEN Len(faces)
                ELSE (CHOOSE i \in failing : \A j \in failing : i <= j) - 1
    IN ResultsFrom(SubSeq(faces, 1, upto), 1)

\* for i, face in enumerate(faces): ...
Results(faces) == ResultsFrom(faces, 1)

\* recognize_face(frame): detect raises (return results, still empty) or yields faces
RecognizeFace(detect, faces) ==
    /\ detect \in {"ok", "raises"}
    /\ detect = "raises" => faces = <<>>
    /\ \E rs \in Results(faces) :
          ret' = [op |-> "recognize", detect |-> detect, faces |-> faces, val |-> rs]
    /\ UNCHANGED <<instVars, camVars_, attVars, idxVars>>

\* ------------------------------------------ get_trainer and get_faiss_db
\* get_trainer() up to `if _trainer_instance is None`: return the instance there is, or
\* go on to FaceRecognitionTrainer()
GetTrainer(c) ==
    /\ call[c] = Idle
    /\ IF trainer_instance # 0
       THEN /\ ret' = [op |-> "get_trainer", val |-> trainer_instance,
                       faiss_db |-> trainers[trainer_instance]]
            /\ UNCHANGED call
       ELSE /\ call' = [call EXCEPT ![c] = [op |-> "get_trainer", pc |-> "get_faiss_db"]]
            /\ Quiet
    /\ UNCHANGED <<workers, order, lock, nworkers, wk, th, attVars, idxVars, instVars>>

\* get_faiss_db() up to `if _faiss_instance is None`, called by a thread itself or by
\* FaceRecognitionTrainer.__init__ (self.faiss_db = get_faiss_db())
GetFaissDb(c) ==
    /\ call[c] = Idle \/ (call[c].op = "get_trainer" /\ call[c].pc = "get_faiss_db")
    /\ IF faiss_instance = 0
       THEN /\ call' = [call EXCEPT ![c] =
                            [op |-> IF call[c] = Idle THEN "get_faiss_db" ELSE "get_trainer",
                             pc |-> "FaissVectorDB"]]
            /\ Quiet
       ELSE IF call[c] = Idle
       THEN /\ ret' = [op |-> "get_faiss_db", val |-> faiss_instance]
            /\ UNCHANGED call
       ELSE /\ call' = [call EXCEPT ![c] = [op |-> "get_trainer", pc |-> "assign",
                                            faiss_db |-> faiss_instance]]
            /\ Quiet
    /\ UNCHANGED <<workers, order, lock, nworkers, wk, th, attVars, idxVars, instVars>>

\* _faiss_instance = FaissVectorDB(); return _faiss_instance
NewFaissDb(c) ==
    /\ call[c].op \in {"get_faiss_db", "get_trainer"}
    /\ call[c].pc = "FaissVectorDB"
    /\ nfaiss' = nfaiss + 1
    /\ faiss_instance' = nfaiss + 1
    /\ IF call[c].op = "get_faiss_db"
       THEN /\ ret' = [op |-> "get_faiss_db", val |-> nfaiss + 1]
            /\ call' = [call EXCEPT ![c] = Idle]
       ELSE /\ call' = [call EXCEPT ![c] = [op |-> "get_trainer", pc |-> "assign",
                                            faiss_db |-> nfaiss + 1]]
            /\ Quiet
    /\ UNCHANGED <<workers, order, lock, nworkers, wk, th, attVars, idxVars,
                   trainer_instance, trainers>>

\* _trainer_instance = FaceRecognitionTrainer(); return _trainer_instance
NewTrainer(c) ==
    /\ call[c].op = "get_trainer"
    /\ call[c].pc = "assign"
    /\ trainers' = Append(trainers, call[c].faiss_db)
    /\ trainer_instance' = Len(trainers) + 1
    /\ ret' = [op |-> "get_trainer", val |-> Len(trainers) + 1, faiss_db |-> call[c].faiss_db]
    /\ call' = [call EXCEPT ![c] = Idle]
    /\ UNCHANGED <<workers, order, lock, nworkers, wk, th, attVars, idxVars,
                   faiss_instance, nfaiss>>

\* ------------------------------------------------------ specification
\* FaissVectorDB() with no files on disk: _load_or_create_index creates the index
\* the module globals before the first get_trainer() and get_faiss_db()
InitInst ==
    /\ trainer_instance = 0
    /\ faiss_instance = 0
    /\ trainers = <<>>
    /\ nfaiss = 0

InitIdx ==
    /\ index = Created.index
    /\ student_ids = Created.student_ids
    /\ embeddings_data = Created.embeddings_data
    /\ disk = [index |-> Missing, meta |-> Missing]

Init ==
    /\ workers = [cam \in Cameras |-> NoWorker]
    /\ order = <<>>
    /\ lock = Free
    /\ nworkers = 0
    /\ wk = [w \in WorkerIds |-> Unborn]
    /\ th = [w \in WorkerIds |-> NoThread]
    /\ call = [c \in Callers |-> Idle]
    /\ ret = NoRet
    /\ today = 1
    /\ records = {}
    /\ nextId = 1
    /\ InitIdx
    /\ InitInst

\* the steps of _run on frames whose recognition results are in RL, at the times TS
Run(w, RL, TS) ==
    \/ RunInit(w) \/ RunLoop(w) \/ RunOpen(w) \/ RunRead(w) \/ RunBackoff(w)
    \/ RunRecognize(w, RL, TS) \/ RunAttCheck(w) \/ RunAttInsert(w) \/ RunAttDone(w) \/ RunWait(w)

\* the steps of _run on frames that show no face: the loop over results has no turn
RunNoFace(w) ==
    \/ RunInit(w) \/ RunLoop(w) \/ RunOpen(w) \/ RunRead(w) \/ RunBackoff(w)
    \/ RunRecognize(w, {<<>>}, {1}) \/ RunAttDone(w) \/ RunWait(w)

StartStop(c, CAMS, FPS) ==
    \/ \E cam \in CAMS, fps \in FPS : Start(c, cam, fps)
    \/ \E cam \in CAMS : Stop(c, cam)
    \/ StopJoined(c)

Manager(c, CAMS, FPS) ==
    \/ StartStop(c, CAMS, FPS)
    \/ StopAll(c) \/ StopAllNext(c) \/ StopAllJoined(c) \/ StopAllReturn(c)
    \/ \E cam \in CAMS : Status(c, cam)
    \/ AllStatus(c) \/ AllStatusReturn(c)

Marker(c, MR) ==
    \/ \E req \in MR : MarkCheck(c, req)
    \/ MarkWrite(c)

\* The camera manager and its workers: every manager call on every camera, by every
\* caller, with start(fps=1), on frames that show no face.
Next ==
    \/ \E w \in WorkerIds : RunNoFace(w)
    \/ \E c \in Callers : Manager(c, Cameras, {10})

Spec == Init /\ [][Next]_vars

\* Worker construction: start with every fps input, stop, and the start of the thread.
NextFps ==
    \/ \E w \in WorkerIds : RunInit(w) \/ RunLoop(w)
    \/ \E c \in Callers : StartStop(c, Cameras, FpsInputs)

SpecFps == Init /\ [][NextFps]_vars

\* One camera's polling loop with every failure of a cycle, started and stopped by a caller.
NextPoll ==
    \/ \E w \in WorkerIds : Run(w, FewResults, {1})
    \/ StartStop(1, {1}, {10})
    \/ Status(1, 1)

SpecPoll == Init /\ [][NextPoll]_vars

\* The same, with every polling thread taking its next step sooner or later: the calls
\* _run makes (frame I/O, recognition, the database, the sleeps) return.
SpecPollFair == SpecPoll /\ \A w \in WorkerIds : WF_vars(Run(w, FewResults, {1}))

\* a worker and its thread as start(camera, fps=1) leaves them
Polling(cam) == WorkerStart(NewWorker(cam, 10))
PollingThread == ThreadStart(NewWorker(0, 10), NoThread)

\* the manager after start() for each of the cameras 1..n
InitPolling(n) ==
    /\ workers = [cam \in Cameras |-> IF cam <= n THEN cam ELSE NoWorker]
    /\ order = [i \in 1..n |-> i]
    /\ lock = Free
    /\ nworkers = n
    /\ wk = [w \in WorkerIds |-> IF w <= n THEN Polling(w) ELSE Unborn]
    /\ th = [w \in WorkerIds |-> IF w <= n THEN PollingThread ELSE NoThread]
    /\ call = [c \in Callers |-> Idle]
    /\ ret = NoRet
    /\ today = 1
    /\ nextId = 1
    /\ InitIdx
    /\ InitInst

\* The attendance store under two polling workers (one per camera), no explicit marks.
InitAtt == InitPolling(2) /\ records = {}

NextAtt ==
    \/ \E w \in WorkerIds : Run(w, OneFace, {1})
    \/ Midnight

SpecAtt == InitAtt /\ [][NextAtt]_vars

\* The attendance store under one polling worker and explicit marks.
InitMark == InitPolling(1) /\ records = {}

NextMark ==
    \/ \E w \in WorkerIds : Run(w, OneFace, {1})
    \/ Marker(1, MarkRequests)
    \/ Midnight

SpecMark == InitMark /\ [][NextMark]_vars

\* The attendance store under one polling worker alone, on frames of up to MaxFaces faces.
InitSingle == InitPolling(1) /\ records = {}

NextSingle ==
    \/ \E w \in WorkerIds : Run(w, ResultLists, Times)
    \/ Midnight

SpecSingle == InitSingle /\ [][NextSingle]_vars

IndexOps(HOW) ==
    \/ \E e \in Embeddings, sid \in Owners, m \in Metas, how \in HOW :
            AddEmbedding(e, sid, m, how)
    \/ \E sid \in Owners, how \in HOW : RemoveStudent(sid, how)
    \/ \E how \in HOW : ClearIndex(how)

\* add, remove and clear of the embeddings ES with the metadata MS, saves ending as in HOW
StoreOps(ES, MS, HOW) ==
    \/ \E e \in ES, sid \in Owners, m \in MS, how \in HOW : AddEmbedding(e, sid, m, how)
    \/ \E sid \in Owners, how \in HOW : RemoveStudent(sid, how)
    \/ \E how \in HOW : ClearIndex(how)

\* The index and its files: every operation with every outcome of its save (a save that
\* raises, or a crash during it, leaves the files part-written), and restarts that load
\* the files.  One embedding, with and without metadata: the vector does not matter here.
NextStore ==
    \/ StoreOps({[dir |-> 1, mag |-> 1]}, {0, 1}, SaveOutcomes)
    \/ LoadIndex

SpecStore == Init /\ [][NextStore]_vars

\* The vector index on its own: add, remove and clear, every save succeeding.
NextIdx == IndexOps({"ok"})

SpecIdx == Init /\ [][NextIdx]_vars

\* Search on every index add, remove and clear build (saves succeeding), with every
\* query position, every k and both thresholds.
NextSearch ==
    \/ StoreOps({e \in Embeddings : e.mag = 1}, {0}, {"ok"})
    \/ \E q \in QueryPositions, k \in KInputs, t \in ThresholdInputs : Search(q, k, t)

SpecSearch == Init /\ [][NextSearch]_vars

\* the batches FL for every owner and minimum, saves ending as in HOW
Enroll(FL, HOW) ==
    \E frames \in FL, sid \in Owners, min_faces \in MinFacesInputs,
       fail \in 0..MaxFrames, how \in HOW :
        Process(frames, sid, min_faces, fail, how)

\* Enrollment with every save outcome, and clears.  The frames show one face or none:
\* which face does not matter here.
NextEnroll ==
    \/ Enroll({fs \in FrameLists : \A i \in 1..Len(fs) : fs[i].dir <= 1}, SaveOutcomes)
    \/ ClearIndex("ok")

SpecEnroll == Init /\ [][NextEnroll]_vars

\* Enrollment, removal and clear with saves that succeed, and searches with the
\* configured cutoff.
NextRecall ==
    \/ Enroll(FrameLists, {"ok"})
    \/ \E sid \in Owners : RemoveStudent(sid, "ok")
    \/ ClearIndex("ok")
    \/ \E q \in QueryPositions, k \in KInputs : Search(q, k, 0)

SpecRecall == Init /\ [][NextRecall]_vars

\* Threads adding embeddings statement by statement on the shared object, and threads
\* searching it as recognize_face does: self.faiss_db.search(embedding, k=1).
NextShared ==
    \/ \E c \in Callers, e \in {x \in Embeddings : x.mag = 1}, sid \in Owners :
          AddEmbeddingIndexAdd(c, e, sid)
    \/ \E c \in Callers : AddEmbeddingAppend(c)
    \/ \E c \in Callers : AddEmbeddingSave(c)
    \/ \E q \in QueryPositions : Search(q, 1, 0)

SpecShared == Init /\ [][NextShared]_vars

\* Recognition of frames with up to MaxFaces detections, each failing or searched, on
\* every index add, remove and clear build (saves succeeding).
NextRecognize ==
    \/ StoreOps({e \in Embeddings : e.mag = 1}, {0}, {"ok"})
    \/ \E detect \in {"ok", "raises"}, faces \in DetectionLists : RecognizeFace(detect, faces)

SpecRecognize == Init /\ [][NextRecognize]_vars

\* Add, remove and search where every owner is enrolled with faces of their own: owner o
\* with the vector of direction o, so that a stored vector tells under whom it was added.
\* The adds run statement by statement, one caller's alone or two callers' interleaved;
\* the searches are recognize_face's (k = 1), for a face of one of the owners.
NextOwn ==
    \/ \E c \in Callers, sid \in Owners :
          AddEmbeddingIndexAdd(c, [dir |-> sid, mag |-> 1], sid)
    \/ \E c \in Callers : AddEmbeddingAppend(c)
    \/ \E c \in Callers : AddEmbeddingSave(c)
    \/ \E sid \in Owners : RemoveStudent(sid, "ok")
    \/ \E sid \in Owners : Search(Pos([dir |-> sid, mag |-> 1]), 1, 0)

SpecOwn == Init /\ [][NextOwn]_vars

\* Threads (camera workers at the start of _run, API requests) calling get_trainer() and
\* get_faiss_db() for the first time and again.
NextInst ==
    \E c \in Callers : GetTrainer(c) \/ GetFaissDb(c) \/ NewFaissDb(c) \/ NewTrainer(c)

SpecInst == Init /\ [][NextInst]_vars

\* ============================================================ claims

\* the attendance events of owner o on day d
EventsIn(recs, o, d) == {r \in recs : r.student_id = o /\ r.date = d}
EventsFor(o, d) == EventsIn(records, o, d)

\* C1: two workers of different cameras that run the autonomous attendance step for the
\* same owner on the same date leave, under every interleaving of their checks and
\* inserts, one event for (owner, date): the store never holds two.
C1_OneEventPerKey ==
    \A o \in Owners, d \in Days : Cardinality(EventsFor(o, d)) <= 1

\* C2: with a single worker, the store never holds two events of one (owner, date), and
\* every cycle that ends without error leaves exactly one event for each owner it
\* recognised, also when the frame shows several faces of that owner.
C2_SingleWorkerOneEvent ==
    /\ [](\A o \in Owners, d \in Days : Cardinality(EventsFor(o, d)) <= 1)
    /\ [][\A w \in WorkerIds :
            (th[w].pc = "att" /\ th'[w].pc = "wait")
            => \A i \in 1..Len(th[w].results) :
                  th[w].results[i].student_id # 0
                  => Cardinality(EventsIn(records', th[w].results[i].student_id, th[w].today)) = 1]_vars

\* a later cycle (timestamp 2) saw two faces of owner 1, whose event is the one of the
\* first sighting (time 1)
C2_Witness ==
    /\ wk[1].last_result # NoResult
    /\ wk[1].last_result.recognized = <<1, 1>>
    /\ wk[1].last_result.timestamp = 2
    /\ \E r \in EventsFor(1, today) : r.time = 1 /\ r.camera_id = 1

\* C3: the write of an explicit mark that found a record of its key overwrites that
\* record's time, camera, confidence and status with the call's values and leaves every
\* other record and the number of records of the key as they were; the write of a mark
\* that found none adds exactly one record, with the call's values.
C3_MarkUpserts ==
    [][\A c \in Callers :
          (call[c].op = "mark" /\ call'[c] = Idle)
          => LET req == call[c].req
                 e == call[c].existing
             IN IF e # 0
                THEN /\ \E r \in records' :
                          /\ r.id = e /\ r.student_id = req.student_id /\ r.date = req.date
                          /\ r.time = req.time /\ r.camera_id = req.camera_id
                          /\ r.confidence = req.confidence /\ r.status = req.status
                     /\ {r \in records' : r.id # e} = {r \in records : r.id # e}
                     /\ Cardinality(EventsIn(records', req.student_id, req.date))
                          = Cardinality(EventsFor(req.student_id, req.date))
                ELSE /\ records \subseteq records'
                     /\ Cardinality(records') = Cardinality(records) + 1
                     /\ \E r \in records' \ records :
                          /\ r.student_id = req.student_id /\ r.date = req.date
                          /\ r.time = req.time /\ r.camera_id = req.camera_id
                          /\ r.confidence = req.confidence /\ r.status = req.status]_vars

\* a mark has just overwritten the record a worker's sighting had created
C3_Witness ==
    /\ ret.op = "mark"
    /\ ret.branch = "update"
    /\ ret.req.status = "late"
    /\ Cardinality(EventsFor(ret.req.student_id, ret.req.date)) = 1
    /\ \E r \in records : r.id = ret.val /\ r.status = "late" /\ r.confidence = 90

\* C4: no step of a worker's cycle changes or removes an attendance event that exists:
\* every event in the store before the step is in the store, with the same time,
\* camera, confidence and status, after it.
C4_WorkerKeepsEvents ==
    [][(th' # th) => records \subseteq records']_vars

\* a worker has passed over a face of an owner whose event for today carries values
\* only an explicit mark writes (camera none)
C4_Witness ==
    /\ th[1].pc = "att"
    /\ th[1].ri = 2
    /\ \E r \in EventsFor(th[1].results[1].student_id, th[1].today) : r.camera_id = 0
    /\ Cardinality(EventsFor(th[1].results[1].student_id, th[1].today)) = 1

\* C5: a start for a camera whose worker is running returns that worker, constructs no
\* worker, starts no thread and changes no field of any worker (its fps stays); and at
\* no time do two workers of one camera have running = true.
C5_StartIdempotent ==
    /\ [](\A w1, w2 \in WorkerIds :
            (wk[w1].running /\ wk[w2].running /\ wk[w1].camera_id = wk[w2].camera_id)
            => w1 = w2)
    /\ [][\A cam \in Cameras :
            (workers[cam] # NoWorker /\ wk[workers[cam]].running
                /\ ret'.op = "start" /\ ret'.cam = cam)
            => /\ ret'.val = workers[cam]
               /\ UNCHANGED <<workers, nworkers, wk, th>>]_vars

\* start(fps=10) has just returned the running worker that start(fps=1) created
C5_Witness ==
    /\ ret.op = "start"
    /\ ret.fps = 100
    /\ wk[ret.val].fps = 10
    /\ wk[ret.val].running
    /\ nworkers = 1

\* C6: a caller inside statusAll() can always take its next step, the status call of
\* the next camera or the return that releases the lock: statusAll() never waits for
\* a lock that cannot be released.
C6_AllStatusProceeds ==
    \A c \in Callers :
        call[c].op = "all_status"
        => ENABLED (AllStatusReturn(c) \/ \E cam \in Cameras : Status(c, cam))

\* C7: stop returns false only for a camera with no worker, and then changes nothing;
\* when stop has returned true the camera's worker has running = false, and when
\* stopAll has returned every worker of the map has, also when a thread is still alive.
C7_StopMarksStopped ==
    /\ []((ret.op = "stop" /\ ~ret.val) => workers[ret.cam] = NoWorker)
    /\ []((ret.op = "stop" /\ ret.val)
            => workers[ret.cam] # NoWorker /\ ~wk[workers[ret.cam]].running)
    /\ [](ret.op = "stop_all"
            => \A cam \in Cameras : workers[cam] # NoWorker => ~wk[workers[cam]].running)
    /\ [][(ret'.op = "stop" /\ ~ret'.val)
            => UNCHANGED <<workers, order, lock, nworkers, wk, th, call>>]_vars

\* stop has returned true for a worker whose thread is still alive (the join timed out)
C7_Witness ==
    /\ ret.op = "stop"
    /\ ret.val
    /\ IsAlive(workers[ret.cam])
    /\ ~wk[workers[ret.cam]].running

\* the fps a start creates a worker with, as the claim states it
ClampedAsClaimed(fps) == IF fps < 2 THEN 2 ELSE IF fps > 50 THEN 50 ELSE fps

\* C8: every worker's fps lies in [0.2, 5]; a start that creates a worker gives it the
\* fps asked for, 0.2 for less and 5 for more; and the poll interval its thread
\* computes is 1/fps (interval * fps = 1).
C8_FpsClamped ==
    /\ [](\A w \in WorkerIds :
            w <= nworkers
            => /\ wk[w].fps >= 2 /\ wk[w].fps <= 50
               /\ th[w].pc \in {"loop", "open"}
                    => th[w].interval[1] * wk[w].fps = th[w].interval[2] * 10)
    /\ [][(ret'.op = "start" /\ nworkers' # nworkers)
            => wk'[ret'.val].fps = ClampedAsClaimed(ret'.fps)]_vars

\* a worker started with fps 0 polls every 5 seconds
C8_Witness ==
    \E w \in WorkerIds :
        /\ wk[w].fps = 2
        /\ th[w].pc = "loop"
        /\ th[w].interval = <<10, 2>>

\* the step of worker w is the failure of a cycle
CycleFails(w) ==
    \/ th[w].pc = "open" /\ th'[w].pc = "sleep_open"
    \/ th[w].pc = "read" /\ th'[w].pc \in {"sleep_read", "wait"}
    \/ th[w].pc = "recognize" /\ th'[w].pc = "wait"
    \/ th[w].pc = "att_insert" /\ th'[w].pc = "wait"

\* C9: a cycle that fails records a non-none error and leaves the thread alive; and as
\* long as no stop was requested, a worker whose last cycle failed (status shows an
\* error) shows running = true and its polling loop is alive.
C9_FailedCycleKeepsWorker ==
    /\ [][\A w \in WorkerIds :
            CycleFails(w) => wk'[w].error # None /\ th'[w].pc \notin {"none", "dead"}]_vars
    /\ [](\A cam \in Cameras :
            (workers[cam] # NoWorker /\ Snapshot(cam).error # None
                /\ ~wk[workers[cam]].stop_event)
            => Snapshot(cam).running /\ IsAlive(workers[cam]))

\* the read of a frame failed: the worker sleeps before its next cycle, running
C9_Witness ==
    /\ workers[1] # NoWorker
    /\ th[workers[1]].pc = "sleep_read"
    /\ Snapshot(1).error = "Failed to read frame"
    /\ Snapshot(1).running
    /\ ~wk[workers[1]].stop_event

\* the entries of the index: slot i's vector, owner and metadata (0: none)
Entries(d) ==
    [i \in 1..Len(d.index) |->
        [vec |-> d.index[i],
         owner |-> IF i <= Len(d.student_ids) THEN d.student_ids[i] ELSE 0,
         meta |-> IF \E it \in d.embeddings_data : it[1] = i - 1
                  THEN (CHOOSE it \in d.embeddings_data : it[1] = i - 1)[2] ELSE 0]]

RECURSIVE Without(_, _)
Without(es, sid) ==
    IF es = <<>> THEN <<>>
    ELSE IF Head(es).owner = sid THEN Without(Tail(es), sid)
         ELSE <<Head(es)>> \o Without(Tail(es), sid)

\* the index holds an entry of sid and an entry of another owner, slot by slot
Mixed(sid) ==
    /\ Len(student_ids) = Len(index)
    /\ CountFor(student_ids, sid) > 0
    /\ CountFor(student_ids, sid) < Len(student_ids)

\* C10: removeOwner(sid) on an index with entries of sid and of other owners leaves
\* countFor(sid) = 0, lowers totalCount() by the prior countFor(sid), and keeps every
\* other entry, in order, with its owner and its metadata.
C10_RemoveKeepsOthers ==
    [][\A sid \in Owners :
          (Mixed(sid) /\ ret'.op = "remove" /\ ret'.student_id = sid)
          => /\ CountFor(student_ids', sid) = 0
             /\ Len(index') = Len(index) - CountFor(student_ids, sid)
             /\ Entries(Db)' = Without(Entries(Db), sid)]_vars

\* C11: after every call of add, remove, clear or load, returned or raised, the owner
\* sequence is as long as the index: len(student_ids) = index.ntotal.
C11_OwnersParallelIndex == Len(student_ids) = Len(index)

\* C12: a load after a persist that was cut short at any point yields an index whose
\* count equals the length of the owner sequence.
C12_LoadAfterCrashConsistent ==
    ret.op = "load" => Len(Loaded(disk).index) = Len(Loaded(disk).student_ids)

\* C13: whenever add or remove returns without raising, the files are up to date: a
\* load at that moment reproduces the index, the owner sequence and the metadata.
C13_PersistedUpToDate ==
    (ret.op \in {"add", "remove"} /\ ret.outcome = "ok") => Loaded(disk) = Db

\* C18: a load from files of which one or both are missing or unreadable yields the
\* fresh empty index: no vector, no owner, no metadata.
C18_LoadFallsBack ==
    (ret.op = "load" /\ (disk.index.state # "ok" \/ disk.meta.state # "ok")) => Db = Created

\* a restart has found the index file written and the metadata file unreadable
C18_Witness ==
    /\ ret.op = "load"
    /\ disk.index.state = "ok"
    /\ Len(disk.index.content) > 0
    /\ disk.meta.state = "corrupt"
    /\ Db = Created

\* the slots whose vector is nearer to the query of the returning search than slot s,
\* and those that are not farther
Nearer(s) == {x \in 0..(Len(index) - 1) : DistOf(ret.q, x) < DistOf(ret.q, s)}
NotFarther(s) == {x \in 0..(Len(index) - 1) : x # s /\ DistOf(ret.q, x) <= DistOf(ret.q, s)}

C20_SearchAtMostKSorted ==
    ret.op = "search" =>
        /\ Len(ret.val) <= ret.k
        /\ \A i, j \in 1..Len(ret.val) :
              i < j => ret.val[i][2][1] * ret.val[j][2][2] >= ret.val[j][2][1] * ret.val[i][2][2]
        /\ Len(index) = 0 => ret.val = <<>>

\* a search with k = 1 on three stored vectors has returned one pair; and so that
\* order matters, a search with k = 2 has returned two pairs of different similarity
C20_Witness ==
    /\ ret.op = "search"
    /\ ret.k = 2
    /\ Len(index) = 3
    /\ Len(ret.val) = 2
    /\ ret.val[1][2] # ret.val[2][2]

\* the number of frames of the returning process call that gave an embedding
ValidCount(frames) == Cardinality({i \in 1..Len(frames) : frames[i] # NoFace})

\* C15: when process returns, either it reports success and all embeddings of the batch
\* are in the index for the owner, or it reports failure and the index and the owner
\* sequence are as before the call.
C15_EnrollAllOrNothing ==
    [][ret'.op = "process"
        => IF ret'.success
           THEN /\ Len(index') = Len(index) + ValidCount(ret'.frames)
                /\ CountFor(student_ids', ret'.student_id)
                     = CountFor(student_ids, ret'.student_id) + ValidCount(ret'.frames)
           ELSE index' = index /\ student_ids' = student_ids]_vars

\* C16: a batch with fewer valid embeddings than min_faces is reported as a failure
\* with the actual count, for the minimum asked, and leaves the index, the owner
\* sequence, the metadata and the files as they were.
C16_TooFewAddsNothing ==
    [][(ret'.op = "process" /\ ValidCount(ret'.frames) < ret'.min_faces)
        => /\ ~ret'.success
           /\ ret'.branch = "not enough"
           /\ ret'.embeddings_count = ValidCount(ret'.frames)
           /\ UNCHANGED <<index, student_ids, embeddings_data, disk>>]_vars

\* a batch of two frames, one of them without a face, was refused for min_faces = 2 on
\* an index that holds entries
C16_Witness ==
    /\ ret.op = "process"
    /\ Len(ret.frames) = 2
    /\ ret.embeddings_count = 1
    /\ ret.min_faces = 2
    /\ ~ret.success
    /\ Len(index) > 0

C14_ReadWriteDiscipline ==
    /\ ret.op = "search" => \A c \in Callers : call[c].op # "add"
    /\ \A c, d \in Callers : (c # d /\ call[c].op = "add") => call[d].op # "add"

\* the detections of the returning recognize_face call that were searched, in order
Searched(faces) ==
    LET F[i \in 0..Len(faces)] ==
            IF i = 0 THEN <<>>
            ELSE IF faces[i].kind = "searched" THEN Append(F[i - 1], i) ELSE F[i - 1]
    IN F[Len(faces)]

\* C21: recognize_face returns one result for each detection that was cropped, embedded
\* and searched, in the order of the detections, none for the others, and the empty
\* list for a frame without detections.
C21_RecognizeSkipsOnlyFailures ==
    ret.op = "recognize"
        => /\ Len(ret.val) = Len(Searched(ret.faces))
           /\ \A i \in 1..Len(ret.val) : ret.val[i].face = Searched(ret.faces)[i]
           /\ ret.faces = <<>> => ret.val = <<>>

\* a frame whose first detection failed and whose second was searched gave one result,
\* for the second detection, on an index that holds entries
C21_Witness ==
    /\ ret.op = "recognize"
    /\ Len(ret.faces) = 2
    /\ ret.faces[1].kind = "embedding raises"
    /\ ret.faces[2].kind = "searched"
    /\ Len(ret.val) = 1
    /\ ret.val[1].face = 2
    /\ ret.val[1].student_id # 0

\* C22: each result carries the owner and the similarity of the first element of the
\* list its search returned, and no owner with confidence 0 when that list is empty.
C22_ResultIsTopMatch ==
    ret.op = "recognize"
        => \A i \in 1..Len(ret.val) :
              LET r == ret.val[i] IN
              IF r.matches # <<>>
              THEN r.student_id = r.matches[1][1] /\ r.confidence = r.matches[1][2]
              ELSE r.student_id = 0 /\ r.confidence = 0

\* a frame of two detections gave one result with an owner and one without
C22_Witness ==
    /\ ret.op = "recognize"
    /\ Len(ret.val) = 2
    /\ ret.val[1].matches # <<>>
    /\ ret.val[1].student_id # 0
    /\ ret.val[2].matches = <<>>
    /\ Len(index) > 0

\* C23: remove_student_embeddings for an owner the owner sequence does not hold returns
\* normally and leaves the index, the owner sequence, the metadata and the files as
\* they were.
C23_RemoveAbsentOwnerNoOp ==
    [][(ret'.op = "remove" /\ CountFor(student_ids, ret'.student_id) = 0)
        => ret'.outcome = "ok" /\ UNCHANGED <<index, student_ids, embeddings_data, disk>>]_vars

\* owner 2 was removed from an index that holds entries with metadata, all of owner 1
C23_Witness ==
    /\ ret.op = "remove"
    /\ ret.student_id = 2
    /\ ret.outcome = "ok"
    /\ Len(index) > 1
    /\ CountFor(student_ids, 1) = Len(index)
    /\ embeddings_data # {}

\* C24: while the stop event of a worker is set, its thread enters no cycle (the loop test
\* ends the loop, so the thread gets to the opening of the source only in a cycle it
\* had begun before); the wait between cycles, returning with the event set, ends the
\* loop; and a thread whose stop event is set ends, its steps being taken.
C24_StopEndsPolling ==
    /\ [][\A w \in WorkerIds :
            /\ (wk[w].stop_event /\ th[w].pc # "open") => th'[w].pc # "open"
            /\ (wk[w].stop_event /\ th[w].pc = "wait" /\ th'[w] # th[w])
                  => th'[w].pc = "dead"]_vars
    /\ \A w \in WorkerIds : wk[w].stop_event ~> ~IsAlive(w)

\* a worker that has completed a cycle was signalled to stop and its thread has ended
C24_Witness ==
    \E w \in WorkerIds :
        /\ wk[w].stop_event
        /\ wk[w].last_result # NoResult
        /\ th[w].pc = "dead"

\* C25: the frame source of a worker is open only between its opening and the read of
\* the cycle's one frame: never during recognition, the attendance writes, a failure
\* backoff or the wait between cycles.
C25_SourceOpenOnlyToRead ==
    \A w \in WorkerIds : th[w].src_open => th[w].pc = "read"

\* C26: every pair a search returns names the owner under whom the stored vector it
\* matched was added (under SpecOwn the vector of direction o was added for owner o).
C26_SearchNamesEnrolledOwner ==
    ret.op = "search"
        => \A i \in 1..Len(ret.val) : ret.val[i][1] = index[ret.idx[i] + 1].dir

\* the workers made for camera cam whose polling thread is alive
AlivePollers(cam) == {w \in WorkerIds : wk[w].camera_id = cam /\ IsAlive(w)}

\* C27: no camera has two polling threads alive at the same time.
C27_OnePollerPerCamera ==
    \A cam \in Cameras : Cardinality(AlivePollers(cam)) <= 1

\* stop has returned for worker w: it was started and its running flag was cleared
Stopped(w) == wk[w].thread /\ ~wk[w].running

\* C28: a step of the thread of a stopped worker adds no attendance record, and the
\* error and last_result of a stopped worker stay as they are.
C28_StoppedWorkerIsSilent ==
    [][\A w \in WorkerIds :
          Stopped(w)
            => /\ th'[w] # th[w] => records' = records
               /\ wk'[w].error = wk[w].error
               /\ wk'[w].last_result = wk[w].last_result]_vars

\* C29: when status(camera_id) reports running, the polling thread of that camera's
\* worker is alive.
C29_RunningMeansAlive ==
    (ret.op = "status" /\ ret.val.running) => IsAlive(workers[ret.cam])

\* C30: at most one FaissVectorDB is ever made, and every trainer holds the same one.
C30_OneSharedIndex ==
    /\ nfaiss <= 1
    /\ \A i, j \in 1..Len(trainers) : trainers[i] = trainers[j]

====
